---- MODULE Spec2Model ----
(***************************************************************************)
(* Model of python/webscraping/scrape_domain_names.py: the crawl driver    *)
(* (main, pick_proxy), proxy verification (proxy_is_working), the crawl    *)
(* engine (do_some_work_until_finished_or_proxy_dead), the reCAPTCHA       *)
(* solve cycle (solve_recaptcha and the Anti-Captcha calls), the           *)
(* resubmission (post_solution_and_update_cookies) and the page parser     *)
(* (page_has_recaptcha, has_next_page).                                    *)
(*                                                                         *)
(* The program is one thread of control; pc is its position.  One action   *)
(* models the code between two external calls.  The target site, the       *)
(* IP-echo endpoint, the oracle and the proxies are the environment: every *)
(* response they can give is an input drawn with \E.                       *)
(***************************************************************************)
EXTENDS Integers, Sequences, FiniteSets, TLC

(***************************************************************************)
(* Bounds of the model.                                                    *)
(***************************************************************************)
\* longest proxy list read from PROXIES_FILE
MaxProxies == 2
\* most pages of a synthetic site of Spec: its last page never reports more
MaxPage == 2
\* the count of polls of one oracle task saturates here
MaxPolls == 4
\* the count of lines holding one record in the results file saturates here
SinkCap == 2

\* the Fetcher objects made when the class is exercised by itself
MaxFetchers == 2

(***************************************************************************)
(* Program constants.                                                      *)
(***************************************************************************)
START_PAGE == 1
MAX_REQUESTS_PER_IP == 20
\* the literal 3 of `while not solution and times_waited < 3`
POLL_LIMIT == 3
\* the {10,} of RECAPTCHA_REGEX
MIN_SITE_KEY_LEN == 10

\* Python's None where the code returns a page number or None
NoPage == -1

(***************************************************************************)
(* Text.  Strings the code inspects are sequences of one-character         *)
(* strings.                                                                *)
(***************************************************************************)
\* `ip in proxy` of proxy_is_working: Python substring test
IsSubstring(s, t) ==
    \E i \in 0..(Len(t) - Len(s)) : SubSeq(t, i + 1, i + Len(s)) = s

RECURSIVE LStrip(_)
LStrip(s) == IF s # <<>> /\ Head(s) = " " THEN LStrip(Tail(s)) ELSE s

RECURSIVE RStrip(_)
RStrip(s) ==
    IF s # <<>> /\ s[Len(s)] = " " THEN RStrip(SubSeq(s, 1, Len(s) - 1)) ELSE s

\* c.text.strip()
Strip(s) == RStrip(LStrip(s))

\* clean = lambda x: re.sub(r'[,\.]', '', x)
clean(x) == SelectSeq(x, LAMBDA c : c \notin {",", "."})

Digits == {"0", "1", "2", "3", "4", "5", "6", "7", "8", "9"}

DigitVal(c) ==
    CASE c = "0" -> 0 [] c = "1" -> 1 [] c = "2" -> 2 [] c = "3" -> 3
      [] c = "4" -> 4 [] c = "5" -> 5 [] c = "6" -> 6 [] c = "7" -> 7
      [] c = "8" -> 8 [] c = "9" -> 9

\* int(x) raises ValueError unless x is a non-empty run of digits
IntParses(x) == x # <<>> /\ \A i \in 1..Len(x) : x[i] \in Digits

RECURSIVE int(_)
int(x) ==
    IF x = <<>> THEN 0
    ELSE 10 * int(SubSeq(x, 1, Len(x) - 1)) + DigitVal(x[Len(x)])


(***************************************************************************)
(* The environment's data.                                                 *)
(***************************************************************************)
\* host:port lines of the proxy list
ProxyAddrs == {<<"1", ":", "8">>, <<"2", ":", "8">>}

\* the address of the second set of lines of a list
AddrRank(a) == IF a = <<"1", ":", "8">> THEN 1 ELSE 2

\* every proxy list of at most MaxProxies lines, a line may repeat; the
\* draw is random, so the order of the lines is of no account and one
\* order stands for all
ProxyLists ==
    {l \in UNION {[1..n -> ProxyAddrs] : n \in 0..MaxProxies} :
        \A i \in 1..(Len(l) - 1) : AddrRank(l[i]) <= AddrRank(l[i + 1])}

\* bodies the IP-echo endpoint can return through a proxy
IpTexts == {<<>>, <<"1">>, <<"9">>}

\* cookie jars: dict of cookie name -> value
CookieNames == {"s2_uGoo"}
CookieValues == {"v"}
Jars == UNION {[D -> CookieValues] : D \in SUBSET CookieNames}
EmptyJar == CHOOSE j \in Jars : DOMAIN j = {}

\* the jars and responses on which the Fetcher class is exercised by itself:
\* two cookie names and two values, and Set-Cookie values on a non-200
\* response too; status 0 stands for an exception raised by requests
SessionCookieNames == {"s2_uGoo", "PHPSESSID"}
SessionCookieValues == {"v", "w"}
SessionJars ==
    UNION {[D -> SessionCookieValues] : D \in SUBSET SessionCookieNames}
SessionResponses ==
    {[status |-> 0, cookies |-> EmptyJar]}
    \cup {[status |-> st, cookies |-> c] : st \in {429, 200}, c \in SessionJars}

\* the site renders a counter with thousands separators: 1,650 or 217.793
DigitChar(d) ==
    CASE d = 0 -> "0" [] d = 1 -> "1" [] d = 2 -> "2" [] d = 3 -> "3"
      [] d = 4 -> "4" [] d = 5 -> "5" [] d = 6 -> "6" [] d = 7 -> "7"
      [] d = 8 -> "8" [] d = 9 -> "9"

RECURSIVE Plain(_)
Plain(n) ==
    IF n < 10 THEN <<DigitChar(n)>> ELSE Plain(n \div 10) \o <<DigitChar(n % 10)>>

RECURSIVE Render(_, _)
Render(n, sep) ==
    IF n < 1000 THEN Plain(n)
    ELSE Render(n \div 1000, sep)
         \o <<sep, DigitChar((n % 1000) \div 100),
              DigitChar((n % 100) \div 10), DigitChar(n % 10)>>

CounterNumbers == {1650, 217793}
Separator(n) == IF n = 1650 THEN "," ELSE "."
\* the texts a counter element can hold: a rendered number, or no number
NumberTexts == {Render(n, Separator(n)) : n \in CounterNumbers}
NoNumberText == <<"n", "/", "a">>

\* <td class="row_name"> texts as served, before strip()
RawCells == {<<"a">>, <<" ", "b", " ">>}

\* phrases a page can carry where the challenge wording would be
MarkerTexts == {"Human Verification", "human being"}

\* fields of a page that the code never reads on a page of the other kind
\* are fixed, so that two pages differ only where the code can tell
NoListing ==
    [table |-> FALSE, cells |-> {}, has_end |-> FALSE, end |-> <<>>,
     has_total |-> FALSE, total |-> <<>>]

NoChallenge == [marker |-> "", key_len |-> 0, token |-> FALSE]

Page(c, l) ==
    [marker |-> c.marker, key_len |-> c.key_len, token |-> c.token,
     table |-> l.table, cells |-> l.cells, has_end |-> l.has_end,
     end |-> l.end, has_total |-> l.has_total, total |-> l.total]

\* challenge pages: the marker phrase, with or without a matching
\* grecaptcha.execute call (site key of key_len characters; 0: no call) and
\* with or without the hidden captcha_token input
ChallengePages ==
    {Page([marker |-> "Human Verification", key_len |-> 0, token |-> FALSE],
          NoListing),
     Page([marker |-> "human being", key_len |-> MIN_SITE_KEY_LEN - 1,
           token |-> FALSE], NoListing),
     Page([marker |-> "human being", key_len |-> MIN_SITE_KEY_LEN,
           token |-> TRUE], NoListing),
     Page([marker |-> "Human Verification", key_len |-> MIN_SITE_KEY_LEN,
           token |-> FALSE], NoListing)}

\* no sites_tbl_end element; one without a following <b>; both with two
\* numbers; both with a text that is no number in one of them
Counters ==
    {[has_end |-> FALSE, end |-> <<>>, has_total |-> FALSE, total |-> <<>>],
     [has_end |-> TRUE, end |-> Render(1650, ","), has_total |-> FALSE,
      total |-> <<>>],
     [has_end |-> TRUE, end |-> NoNumberText, has_total |-> TRUE,
      total |-> Render(1650, ",")],
     [has_end |-> TRUE, end |-> Render(1650, ","), has_total |-> TRUE,
      total |-> NoNumberText]}
    \cup {[has_end |-> TRUE, end |-> e, has_total |-> TRUE, total |-> t] :
            e \in NumberTexts, t \in NumberTexts}

\* pages without challenge wording: a block page (no results table) or a
\* listing with some cells and some counter
ListingPages ==
    {Page(NoChallenge, NoListing)}
    \cup
    {Page(NoChallenge,
          [table |-> TRUE, cells |-> cs, has_end |-> c.has_end, end |-> c.end,
           has_total |-> c.has_total, total |-> c.total]) :
        cs \in SUBSET RawCells, c \in Counters}

NoText == [none |-> TRUE]

\* bodies of the answer to the POST of a solution
RedirectScript == "<script>window.location=window.location.href.split(\"#\")[0];</script>"
PostBodies == {[body |-> RedirectScript], [body |-> "<html>denied</html>"]}

\* what a request through a proxy can come to: an exception (status 0), a
\* non-200 status, or 200 with a body and Set-Cookie values
Responses(texts) ==
    {[status |-> s, text |-> NoText, cookies |-> EmptyJar] : s \in {0, 429}}
    \cup {[status |-> 200, text |-> t, cookies |-> c] : t \in texts, c \in Jars}

\* the response object as the caller sees it; None when _request returned None
None == [ok |-> FALSE, text |-> NoText]
Seen(resp) == [ok |-> TRUE, text |-> resp.text]


(***************************************************************************)
(* Pure functions of the program.                                          *)
(***************************************************************************)
\* str.lower() on the phrases of MarkerTexts
Lower(s) ==
    CASE s = "Human Verification" -> "human verification"
      [] OTHER -> s

page_has_recaptcha(html) ==
    LET html_lower == Lower(html.marker)
    IN  html_lower = "human verification" \/ html_lower = "human being"

\* the search with {9,} for {10,}
RecaptchaMatchShorter(old_html) == old_html.key_len >= MIN_SITE_KEY_LEN - 1

\* re.search(RECAPTCHA_REGEX, old_html): the site key needs {10,} characters
RecaptchaMatch(old_html) == old_html.key_len >= MIN_SITE_KEY_LEN

\* has_next_page raises ValueError when int() is given no number
has_next_page_raises(parsed_html) ==
    /\ parsed_html.has_end
    /\ parsed_html.has_total
    /\ ~(IntParses(clean(parsed_html.end)) /\ IntParses(clean(parsed_html.total)))

\* has_next_page with <= for <
has_next_page_le(parsed_html) ==
    IF parsed_html.has_end /\ parsed_html.has_total
    THEN IF int(clean(parsed_html.end)) <= int(clean(parsed_html.total))
         THEN "True" ELSE "False"
    ELSE "None"

\* has_next_page: "True", "False", or "None" when the counter is not found
has_next_page(parsed_html) ==
    IF parsed_html.has_end /\ parsed_html.has_total
    THEN LET cur_results_end_int == int(clean(parsed_html.end))
             tot_results_int == int(clean(parsed_html.total))
         IN  IF cur_results_end_int < tot_results_int THEN "True" ELSE "False"
    ELSE "None"

\* self.cookies.update(new_cookies)
Update(cookies_, new_cookies) ==
    [n \in DOMAIN cookies_ \cup DOMAIN new_cookies |->
        IF n \in DOMAIN new_cookies THEN new_cookies[n] ELSE cookies_[n]]

\* Fetcher._request: the jar after the call
JarAfter(cookies_, resp) ==
    IF resp.status = 200 THEN Update(cookies_, resp.cookies) ELSE cookies_

\* Fetcher._request: what the call returns
Returned(resp) == IF resp.status = 200 THEN Seen(resp) ELSE None

\* the acceptance test without the cookie
AcceptedOnBodyAlone(res_, cookies_) ==
    res_.ok /\ res_.text.body \in {RedirectScript}

\* post_solution_and_update_cookies: the test after fetcher.post returned
SolutionAccepted(res_, cookies_) ==
    /\ res_.ok
    /\ res_.text.body \in {RedirectScript}
    /\ "s2_uGoo" \in DOMAIN cookies_

\* domains_ = set([c.text.strip() for c in cells])
Extract(cells) == {Strip(c) : c \in cells}

Records == Extract(RawCells)

\* domains = domains_ for domains.update(domains_)
ReplaceDomains(domains0, domains_) == domains_

\* domains.update(domains_)
MergeDomains(domains0, domains_) == domains0 \cup domains_

\* write_domains_to_file that writes nothing
WriteNothing(file, domains_) == file

\* write_domains_to_file(domains_): one line appended per element
WriteDomains(file, domains_) ==
    [r \in Records |->
        IF r \in domains_ /\ file[r] < SinkCap THEN file[r] + 1 ELSE file[r]]

\* the loop test with <= for <
BudgetLeftInclusive(n) == n <= MAX_REQUESTS_PER_IP

\* while num_requests < MAX_REQUESTS_PER_IP
BudgetLeft(n) == n < MAX_REQUESTS_PER_IP

\* while not solution and times_waited < 3 (solution is still None)
PollAgain(waited) == waited < POLL_LIMIT

\* if page, for if not page
NotPageNegated(p) == ~(p = NoPage \/ p = 0)

\* if page == 0, for if not page: None goes for a page
NotPageZeroOnly(p) == p = 0

\* if not page (main): None and 0 are falsy
NotPage(p) == p = NoPage \/ p = 0

\* the pages a synthetic site of `last` pages serves for page index p: from
\* its last page on, no page reports more
SitePages(p, last) ==
    IF p < last THEN ListingPages \cup ChallengePages
    ELSE {h \in ListingPages \cup ChallengePages :
            has_next_page_raises(h) \/ has_next_page(h) # "True"}


(***************************************************************************)
(* State.                                                                  *)
(***************************************************************************)
VARIABLES
    pc,            \* position of the one thread of control
    proxies,       \* pick_proxy: the candidates not yet drawn
    proxy,         \* main: the proxy of the current iteration
    good_proxies,  \* module global
    bad_proxies,   \* module global
    domains,       \* module global: every record seen
    results_file,  \* RESULTS_FILE: lines holding each record (up to SinkCap)
    page,          \* main: the cursor
    page_next_up,  \* engine local
    num_requests,  \* engine local
    cookies,       \* fetcher.cookies of the engine's Fetcher
    res,           \* the response the engine holds (res / html / old_html)
    times_waited,  \* solve_recaptcha local
    message,       \* the last message printed about the way the engine ended
    drawn,         \* history: every proxy yielded by pick_proxy, in order
    polls,         \* history: getTaskResult calls for the task being awaited
    refetches,     \* history: GETs after an accepted solution, this proxy
    extracted,     \* history: union of the record sets extracted from pages
    written_pages, \* history: indices of the pages whose records were
                   \* merged into domains and written to the results file
    pause_due,     \* history: a page came back through this proxy and
                   \* time.sleep(5) has not been reached since
    site_last,     \* environment: the index of the site's last page
    fetchers,      \* the Fetcher objects made: proxy, and the dict object
                   \* that self.cookies refers to
    dicts,         \* the dict objects: the jar each one holds
    request        \* history: the last _request call and what came back

vars ==
    <<pc, proxies, proxy, good_proxies, bad_proxies, domains, results_file,
      page, page_next_up, num_requests, cookies, res, times_waited, message,
      drawn, polls, refetches, extracted, written_pages, pause_due,
      site_last, fetchers, dicts, request>>

mainVars == <<proxies, proxy, drawn, site_last>>
sessionVars == <<fetchers, dicts, request>>
crawlVars ==
    <<pc, proxies, proxy, good_proxies, bad_proxies, domains, results_file,
      page, page_next_up, num_requests, cookies, res, times_waited, message,
      drawn, polls, refetches, extracted, written_pages, pause_due,
      site_last>>

\* no _request call yet
NoRequest == [fetcher |-> 0, status |-> 0, cookies |-> EmptyJar]
verdictVars == <<good_proxies, bad_proxies>>
recordVars == <<domains, results_file, extracted, written_pages>>
solveVars == <<times_waited, polls>>

NoProxy == <<>>

EnginePcs ==
    {"fetch", "create_task", "poll_sleep", "poll", "post", "refetch",
     "parse", "paginate"}

\* a site long enough for one proxy to use up its budget on pages without
\* challenge
BudgetSitePages == MAX_REQUESTS_PER_IP + 1

StartAt(lists, lasts, starts) ==
    /\ pc = "pick"
    /\ proxies \in lists
    /\ site_last \in lasts
    /\ proxy = NoProxy
    /\ good_proxies = <<>>
    /\ bad_proxies = <<>>
    /\ domains = {}
    /\ results_file = [r \in Records |-> 0]
    /\ page \in starts
    /\ page_next_up = page
    /\ num_requests = 0
    /\ cookies = EmptyJar
    /\ res = None
    /\ times_waited = 0
    /\ message = "-"
    /\ drawn = <<>>
    /\ polls = 0
    /\ refetches = 0
    /\ extracted = {}
    /\ written_pages = {}
    /\ pause_due = FALSE
    /\ fetchers = <<>>
    /\ dicts = [d \in 1..MaxFetchers |-> EmptyJar]
    /\ request = NoRequest

\* main: page = START_PAGE
Start(lists, lasts) == StartAt(lists, lasts, {START_PAGE})

\* the values START_PAGE is set to by hand before a run ("set this to 1 if
\* first starting"): the index 0 of the site's address scheme, and 1
StartCursors == 0..START_PAGE

\* any proxy list, a short site
Init == Start(ProxyLists, 1..MaxPage)

\* at most one proxy, a site of one page
FairInit == Start({l \in ProxyLists : Len(l) <= 1}, {START_PAGE})

\* any proxy list, a short site, any start cursor
AnyStartInit == StartAt(ProxyLists, 1..MaxPage, StartCursors)

\* one proxy, a site longer than the budget of one proxy
BudgetInit == Start({l \in ProxyLists : Len(l) = 1}, {BudgetSitePages})

(***************************************************************************)
(* main and pick_proxy.                                                    *)
(***************************************************************************)
\* the engine returning the index after the one it holds
ReturnAdvanced(val, msg) ==
    /\ page' = IF val = NoPage THEN NoPage ELSE val + 1
    /\ message' = msg
    /\ pc' = IF NotPage(val) THEN "done" ELSE "switch_delay"

\* the engine returning its argument page for page_next_up
ReturnArgument(val, msg) ==
    /\ page' = IF val = NoPage THEN NoPage ELSE page
    /\ message' = msg
    /\ pc' = IF NotPage(val) THEN "done" ELSE "switch_delay"

\* main going round the loop without time.sleep(3)
ReturnWithoutDelay(val, msg) ==
    /\ page' = val
    /\ message' = msg
    /\ pc' = IF NotPage(val) THEN "done" ELSE "pick"

\* do_some_work_until_finished_or_proxy_dead returns val to main, which
\* stores it in page and breaks when it is falsy
Return(val, msg) ==
    /\ page' = val
    /\ message' = msg
    /\ pc' = IF NotPage(val) THEN "done" ELSE "switch_delay"

\* an exception leaves main; the finally block prints the summary
Raise(msg) ==
    /\ pc' = "crashed"
    /\ message' = msg
    /\ page' = page

\* proxies.pop(index)
Pop(list, index) ==
    SubSeq(list, 1, index - 1) \o SubSeq(list, index + 1, Len(list))

\* next(pick_proxy()): a random candidate is removed and yielded; the for
\* loop ends in its else branch when none is left
Pick ==
    /\ pc = "pick"
    /\ IF proxies = <<>>
       THEN /\ pc' = "exhausted"
            /\ UNCHANGED <<proxies, proxy, drawn>>
            /\ message' = "no more proxies"
       ELSE \E index \in 1..Len(proxies) :
               /\ proxy' = proxies[index]
               /\ proxies' = Pop(proxies, index)
               /\ drawn' = Append(drawn, proxies[index])
               /\ pc' = "verify"
               /\ message' = "-"
    /\ site_last' = site_last
    /\ refetches' = 0
    /\ page_next_up' = page
    /\ num_requests' = 0
    /\ cookies' = EmptyJar
    /\ res' = None
    /\ pause_due' = FALSE
    /\ UNCHANGED <<sessionVars, page, verdictVars, recordVars, solveVars>>

\* time.sleep(3) between two proxies
SwitchDelay ==
    /\ pc = "switch_delay"
    /\ pc' = "pick"
    /\ UNCHANGED <<pause_due, sessionVars, refetches, mainVars, verdictVars, recordVars, solveVars, page,
                   page_next_up, num_requests, cookies, res, message>>

(***************************************************************************)
(* proxy_is_working, and the start of the engine when it says True.        *)
(***************************************************************************)
\* the verdict lists after proxy_is_working(proxy_) saw resp
GoodAfter(good, proxy_, resp) ==
    IF resp.status = 200 /\ IsSubstring(resp.text, proxy_)
    THEN Append(good, proxy_) ELSE good

BadAfter(bad, proxy_, resp) ==
    IF resp.status = 200 THEN bad ELSE Append(bad, proxy_)

\* proxy_is_working without the test of the echoed address
proxy_is_working_any_ip(proxy_, resp) == resp.status = 200

proxy_is_working(proxy_, resp) ==
    resp.status = 200 /\ IsSubstring(resp.text, proxy_)

Verify ==
    /\ pc = "verify"
    /\ \E resp \in Responses(IpTexts) :
          \* Set-Cookie values go to the jar of the Fetcher made by
          \* proxy_is_working, which is dropped when it returns
          /\ good_proxies' = GoodAfter(good_proxies, proxy, resp)
          /\ bad_proxies' = BadAfter(bad_proxies, proxy, resp)
          /\ IF proxy_is_working(proxy, resp)
             THEN /\ num_requests' = 0
                  /\ page_next_up' = page
                  /\ cookies' = EmptyJar
                  /\ pc' = "fetch"
                  /\ UNCHANGED <<page, message>>
             ELSE /\ Return(page, "proxy not working")
                  /\ UNCHANGED <<num_requests, page_next_up, cookies>>
    /\ UNCHANGED <<pause_due, sessionVars, mainVars, recordVars, solveVars, res, refetches>>


(***************************************************************************)
(* do_some_work_until_finished_or_proxy_dead: the engine.                  *)
(***************************************************************************)
\* the oracle's answers to createTask: requests.post raised; a non-200
\* status; 200 with a body that is no JSON; 200 with JSON that has no
\* taskId; 200 with taskId 0; 200 with a taskId
CreateTaskAnswers ==
    {"raise", "non200", "malformed", "no_task_id", "task_id_0", "task_id"}

\* the oracle's answers to getTaskResult: requests.post raised; a non-200
\* status; 200 with a body that is no JSON; 200 without solution (still
\* processing, or an error); 200 with an empty gRecaptchaResponse; 200 with
\* a solution
TaskResultAnswers ==
    {"raise", "non200", "malformed", "processing", "empty", "ready"}

\* the test of the while loop: with the budget used up the engine returns
\* page_next_up; else res = fetcher.get(url); num_requests += 1; the
\* recaptcha test, and the regular expression search that opens
\* solve_recaptcha
Fetch ==
    /\ pc = "fetch"
    /\ IF ~BudgetLeft(num_requests)
       THEN /\ Return(page_next_up, "budget")
            /\ UNCHANGED <<num_requests, cookies, res, pause_due>>
       ELSE
       \E resp \in Responses(SitePages(page_next_up, site_last)) :
          /\ num_requests' = num_requests + 1
          /\ cookies' = JarAfter(cookies, resp)
          /\ res' = Returned(resp)
          /\ pause_due' = (pause_due \/ Returned(resp).ok)
          /\ IF ~Returned(resp).ok
             THEN Return(page_next_up, "no content")
             ELSE IF page_has_recaptcha(resp.text)
             THEN IF RecaptchaMatch(resp.text)
                  THEN /\ pc' = "create_task"
                       /\ UNCHANGED <<page, message>>
                  ELSE Return(page_next_up, "no solution")
             ELSE /\ pc' = "parse"
                  /\ UNCHANGED <<page, message>>
    /\ UNCHANGED <<sessionVars, mainVars, verdictVars, recordVars, solveVars, page_next_up,
                   refetches>>

\* _create_anti_captcha_task, then solution = None; times_waited = 0
CreateTask ==
    /\ pc = "create_task"
    /\ \E answer \in CreateTaskAnswers :
          CASE answer \in {"raise", "malformed"} ->
                  /\ Raise("createTask raised")
                  /\ UNCHANGED solveVars
            [] answer \in {"non200", "no_task_id", "task_id_0"} ->
                  /\ Return(page_next_up, "no solution")
                  /\ UNCHANGED solveVars
            [] answer = "task_id" ->
                  /\ times_waited' = 0
                  /\ polls' = 0
                  /\ pc' = "poll_sleep"
                  /\ UNCHANGED <<page, message>>
    /\ UNCHANGED <<pause_due, sessionVars, mainVars, verdictVars, recordVars, page_next_up,
                   num_requests, cookies, res, refetches>>

\* the test of the poll loop with no solution yet, then time.sleep(6)
PollSleep ==
    /\ pc = "poll_sleep"
    /\ IF PollAgain(times_waited)
       THEN /\ pc' = "poll"
            /\ UNCHANGED <<page, message>>
       ELSE Return(page_next_up, "no solution")
    /\ UNCHANGED <<pause_due, sessionVars, mainVars, verdictVars, recordVars, solveVars,
                   page_next_up, num_requests, cookies, res, refetches>>

\* solution = _get_anti_captcha_solution(task_id); with a solution the loop
\* ends and the captcha_token input is read from the old page
Poll ==
    /\ pc = "poll"
    /\ \E answer \in TaskResultAnswers :
          CASE answer \in {"raise", "malformed"} ->
                  /\ Raise("getTaskResult raised")
                  /\ polls' = IF polls < MaxPolls THEN polls + 1 ELSE polls
            [] answer \in {"non200", "processing", "empty"} ->
                  /\ pc' = "poll_sleep"
                  /\ polls' = IF polls < MaxPolls THEN polls + 1 ELSE polls
                  /\ UNCHANGED <<page, message>>
            [] answer = "ready" ->
                  /\ polls' = 0
                  /\ IF res.text.token
                     THEN /\ pc' = "post"
                          /\ UNCHANGED <<page, message>>
                     ELSE Raise("captcha_token input not found")
    /\ UNCHANGED <<pause_due, sessionVars, mainVars, verdictVars, recordVars, times_waited,
                   page_next_up, num_requests, cookies, res, refetches>>

\* post_solution_and_update_cookies
Post ==
    /\ pc = "post"
    /\ \E resp \in Responses(PostBodies) :
          /\ cookies' = JarAfter(cookies, resp)
          /\ res' = Returned(resp)
          /\ IF SolutionAccepted(Returned(resp), JarAfter(cookies, resp))
             THEN /\ pc' = "refetch"
                  /\ UNCHANGED <<page, message>>
             ELSE Return(page_next_up, "not accepted")
    /\ UNCHANGED <<pause_due, sessionVars, mainVars, verdictVars, recordVars, solveVars,
                   page_next_up, num_requests, refetches>>

\* res = fetcher.get(url); num_requests += 1, after an accepted solution
Refetch ==
    /\ pc = "refetch"
    /\ \E resp \in Responses(SitePages(page_next_up, site_last)) :
          /\ num_requests' = num_requests + 1
          /\ refetches' = refetches + 1
          /\ cookies' = JarAfter(cookies, resp)
          /\ res' = Returned(resp)
          /\ pause_due' = (pause_due \/ Returned(resp).ok)
          /\ IF ~Returned(resp).ok
             THEN Return(page_next_up, "refetch failed")
             ELSE IF page_has_recaptcha(resp.text)
             THEN Return(page_next_up, "another recaptcha")
             ELSE /\ pc' = "parse"
                  /\ UNCHANGED <<page, message>>
    /\ UNCHANGED <<sessionVars, mainVars, verdictVars, recordVars, solveVars, page_next_up>>

\* the table lookup; domains.update(domains_); write_domains_to_file(domains_)
Parse ==
    /\ pc = "parse"
    /\ IF ~res.text.table
       THEN /\ Return(page_next_up, "no table")
            /\ UNCHANGED recordVars
       ELSE LET domains_ == Extract(res.text.cells)
            IN  /\ domains' = MergeDomains(domains, domains_)
                /\ results_file' = WriteDomains(results_file, domains_)
                /\ extracted' = extracted \cup domains_
                /\ written_pages' =
                      IF domains_ \subseteq domains'
                         /\ \A r \in domains_ : results_file'[r] > 0
                      THEN written_pages \cup {page_next_up}
                      ELSE written_pages
                /\ pc' = "paginate"
                /\ UNCHANGED <<page, message>>
    /\ UNCHANGED <<pause_due, sessionVars, mainVars, verdictVars, solveVars, page_next_up,
                   num_requests, cookies, res, refetches>>

\* time.sleep(5); more_pages = has_next_page(parsed) and the three
\* branches.  Going round the loop, res is dead: its next use follows the
\* assignment from fetcher.get
Paginate ==
    /\ pc = "paginate"
    /\ pause_due' = FALSE
    /\ IF has_next_page_raises(res.text)
       THEN /\ Raise("has_next_page raised")
            /\ UNCHANGED <<page_next_up, res>>
       ELSE LET more_pages == has_next_page(res.text)
            IN  CASE more_pages = "None" ->
                       /\ Return(NoPage, "more pages not determined")
                       /\ UNCHANGED <<page_next_up, res>>
                  [] more_pages = "True" ->
                       /\ page_next_up' = page_next_up + 1
                       /\ pc' = "fetch"
                       /\ res' = None
                       /\ UNCHANGED <<page, message>>
                  [] more_pages = "False" ->
                       /\ Return(NoPage, "all done")
                       /\ UNCHANGED <<page_next_up, res>>
    /\ UNCHANGED <<sessionVars, mainVars, verdictVars, recordVars, solveVars,
                   num_requests, cookies, refetches>>

Next ==
    \/ Pick
    \/ SwitchDelay
    \/ Verify
    \/ Fetch
    \/ CreateTask
    \/ PollSleep
    \/ Poll
    \/ Post
    \/ Refetch
    \/ Parse
    \/ Paginate

Spec == Init /\ [][Next]_vars

BudgetSpec == BudgetInit /\ [][Next]_vars

AnyStartSpec == AnyStartInit /\ [][Next]_vars

\* the interpreter keeps running the one thread until main ends; at most
\* one proxy and a site of one page
FairSpec == FairInit /\ [][Next]_vars /\ WF_vars(Next)


(***************************************************************************)
(* The Fetcher class by itself: objects made by Fetcher(proxy), as both    *)
(* call sites make them, and _request calls on any of them.                *)
(***************************************************************************)
\* a default dict evaluated once and shared: cookies: Dict = {}
DefaultDict(fetchers_) == 1

\* self.cookies = cookies or {} with cookies None: a dict object of its own
NewDict(fetchers_) == Len(fetchers_) + 1

\* fetcher = Fetcher(proxy)
NewFetcher ==
    /\ Len(fetchers) < MaxFetchers
    /\ \E proxy_ \in ProxyAddrs :
          fetchers' =
              Append(fetchers, [proxy |-> proxy_, cookies |-> NewDict(fetchers)])
    /\ UNCHANGED <<dicts, request, crawlVars>>

\* fetcher._request(url, method) on a Fetcher made before
Request ==
    /\ \E f \in DOMAIN fetchers, resp \in SessionResponses :
          LET d == fetchers[f].cookies
          IN  /\ dicts' = [dicts EXCEPT ![d] = JarAfter(dicts[d], resp)]
              /\ request' = [fetcher |-> f, status |-> resp.status,
                             cookies |-> resp.cookies]
    /\ UNCHANGED <<fetchers, crawlVars>>

SessionNext ==
    \/ NewFetcher
    \/ Request

SessionInit == Start({<<>>}, {START_PAGE})

SessionSpec == SessionInit /\ [][SessionNext]_vars

TypeOK ==
    /\ pc \in EnginePcs \cup {"pick", "verify", "switch_delay", "done",
                              "exhausted", "crashed"}
    /\ page \in {NoPage} \cup START_PAGE..site_last
    /\ page_next_up \in START_PAGE..site_last
    /\ num_requests \in 0..(MAX_REQUESTS_PER_IP + 1)
    /\ cookies \in Jars
    /\ domains \subseteq Records
    /\ polls \in 0..MaxPolls
    /\ Len(drawn) + Len(proxies) <= MaxProxies


(***************************************************************************)
(* The claims.                                                             *)
(***************************************************************************)

\* C1: one oracle task is polled at most 3 times: after the 3rd poll without
\* a solution the loop ends and solve_recaptcha returns None.
C1_AtMostThreePolls == polls <= POLL_LIMIT

\* C2: every address given to proxy_is_working is appended to exactly one of
\* good_proxies and bad_proxies: the two lists together hold one entry for
\* each verification that has returned.
C2_ExactlyOneVerdict ==
    Len(good_proxies) + Len(bad_proxies)
        = Len(drawn) - (IF pc = "verify" THEN 1 ELSE 0)

\* the step by which the engine returns because the budget is used up
BudgetExit == message # "budget" /\ message' = "budget"

\* C3 as claimed: an engine invocation that ends on the budget has made
\* exactly 20 fetches and returns the start cursor + 20, whatever the mix of
\* challenge and plain pages.
C3_TwentyPagesPerProxy ==
    [][BudgetExit =>
          /\ num_requests = MAX_REQUESTS_PER_IP
          /\ page' = page + MAX_REQUESTS_PER_IP]_vars

\* C3 as amended: an engine invocation that neither finishes nor fails
\* returns at the first loop test at which its GET requests (first fetches
\* and re-fetches after a challenge) number 20 or more: after 20 requests, or
\* 21 when the 20th met a challenge.  It returns the start cursor advanced
\* by the pages parsed, which is the requests less the re-fetches: by 20
\* when no challenge was met, and by 10 to 20 otherwise.
C3_BudgetCountsRequests ==
    [][BudgetExit =>
          /\ num_requests \in {MAX_REQUESTS_PER_IP, MAX_REQUESTS_PER_IP + 1}
          /\ num_requests' = num_requests
          /\ page' = page_next_up
          /\ page' = page + num_requests - refetches
          /\ 2 * refetches <= num_requests
          /\ refetches = 0 => page' = page + MAX_REQUESTS_PER_IP
          /\ page' <= page + MAX_REQUESTS_PER_IP
          /\ pc' = "switch_delay"]_vars

\* a budget exit after 21 requests, some of them re-fetches
C3_Witness ==
    /\ message = "budget"
    /\ num_requests = MAX_REQUESTS_PER_IP + 1
    /\ refetches > 0
    /\ page = START_PAGE + num_requests - refetches

\* C4: no record is written to the results file twice in one run.
C4_NoDuplicateInSink == \A r \in Records : results_file[r] <= 1

\* the records with a line in the results file
Written == {r \in Records : results_file[r] > 0}

\* C5: in every state the global record set is the union of the record sets
\* extracted from the pages parsed so far, which is also what the results
\* file holds; it only grows, and it changes only by the parse of a page with
\* a results table, which adds that page's records: a page that fails before
\* that adds nothing.
C5_GlobalRecordSet ==
    /\ [](domains = extracted /\ domains = Written)
    /\ [][/\ domains \subseteq domains'
          /\ domains' # domains =>
                /\ pc = "parse"
                /\ res.text.table
                /\ domains' = domains \cup Extract(res.text.cells)]_vars

\* the second proxy takes over after a page failed on the first, and ends
\* the run with both records seen, one of them on two pages
C5_Witness ==
    /\ pc = "done"
    /\ Len(good_proxies) = 2
    /\ domains = Records
    /\ \E r \in Records : results_file[r] = 2

\* C6: no failure of an external call makes an exception leave main.
C6_NoException == pc # "crashed"

\* C7: every run of the driver comes to an end.  (The claim names two ends,
\* done and pool exhausted; the formula also lets a run end by an exception,
\* so that it is about coming to an end alone.)
C7_RunEnds == <>(pc \in {"done", "exhausted", "crashed"})

\* C8: pick_proxy yields no address twice in one run.
C8_AddressDrawnOnce ==
    \A i, j \in 1..Len(drawn) : drawn[i] = drawn[j] => i = j

\* C9: post_solution_and_update_cookies accepts exactly when the POST came
\* back with the redirect script as its body and s2_uGoo is in the jar; then
\* the engine goes on to the re-fetch.  In every other case the engine
\* returns at once, with no further request, the cursor it holds.
C9_Acceptance ==
    [][pc = "post" =>
          LET accepted ==
                  /\ res'.ok
                  /\ res'.text.body = RedirectScript
                  /\ "s2_uGoo" \in DOMAIN cookies'
          IN  IF accepted
              THEN pc' = "refetch" /\ page' = page
              ELSE /\ pc' \notin EnginePcs
                   /\ message' = "not accepted"
                   /\ page' = page_next_up
                   /\ page_next_up' = page_next_up
                   /\ num_requests' = num_requests
                   /\ refetches' = refetches]_vars

\* the right body without the cookie: rejected
C9_Witness ==
    /\ message = "not accepted"
    /\ res.ok
    /\ res.text.body = RedirectScript
    /\ "s2_uGoo" \notin DOMAIN cookies

\* the counter of the page reads cur of tot, in either rendering
Shows(html, cur, tot) ==
    /\ html.has_end
    /\ html.has_total
    /\ \E s1, s2 \in {",", "."} :
          html.end = Render(cur, s1) /\ html.total = Render(tot, s2)

\* the engine ends the run with done
EndsDone ==
    /\ pc' = "done"
    /\ page' = NoPage
    /\ page_next_up' = page_next_up

\* C10: at the pagination decision the page's records are in the results
\* file.  A counter reading cur of tot makes the engine advance the cursor by
\* one and fetch again when cur < tot, and end with done otherwise; a missing
\* counter makes it end with done.  The cursor is advanced by no other step.
C10_Pagination ==
    [][/\ pc = "paginate" =>
            /\ Extract(res.text.cells) \subseteq Written
            /\ ~(res.text.has_end /\ res.text.has_total) => EndsDone
            /\ \A cur, tot \in CounterNumbers :
                  Shows(res.text, cur, tot) =>
                     IF cur < tot
                     THEN /\ pc' = "fetch"
                          /\ page_next_up' = page_next_up + 1
                          /\ page' = page
                     ELSE EndsDone
       /\ page_next_up' # page_next_up =>
            /\ pc = "paginate"
            /\ \E cur, tot \in CounterNumbers :
                  cur < tot /\ Shows(res.text, cur, tot)]_vars

\* done on a page whose counter reads 217,793 of 217,793
C10_Witness ==
    /\ pc = "done"
    /\ message = "all done"
    /\ Shows(res.text, 217793, 217793)

\* the steps of solve_recaptcha and of the resubmission
SolvePcs == {"create_task", "poll_sleep", "poll", "post"}

\* C11: a fetched page with the challenge wording but without a
\* grecaptcha.execute call that has a site key of 10 characters or more makes
\* the engine return at once the cursor it holds: no createTask, no
\* getTaskResult, no POST.  The solving steps only ever run on a page that
\* has such a call.
C11_NoPatternNoSolve ==
    /\ [](pc \in SolvePcs =>
             /\ res.ok
             /\ res.text.marker \in MarkerTexts
             /\ res.text.key_len >= MIN_SITE_KEY_LEN)
    /\ [][/\ pc = "fetch"
          /\ res'.ok
          /\ res'.text.marker \in MarkerTexts
          /\ res'.text.key_len < MIN_SITE_KEY_LEN
          => /\ pc' = "switch_delay"
             /\ message' = "no solution"
             /\ page' = page_next_up
             /\ page_next_up' = page_next_up
             /\ num_requests' = num_requests + 1
             /\ UNCHANGED <<polls, times_waited, refetches, recordVars>>]_vars

\* page 2 met a challenge whose site key is one character short
C11_Witness ==
    /\ pc = "switch_delay"
    /\ message = "no solution"
    /\ res.ok
    /\ res.text.marker = "human being"
    /\ res.text.key_len = MIN_SITE_KEY_LEN - 1
    /\ page = START_PAGE + 1

\* C12: a verification that does not end with the proxy in good_proxies (no
\* response, which puts it in bad_proxies, or an echoed IP that is no
\* substring of the address, which puts it nowhere) hands the cursor back to
\* main with no request to the site, the cursor and the records unchanged,
\* and main goes to the delay before the next pick.  The engine only ever
\* runs on the proxy that was the last to pass verification.
C12_FailedVerification ==
    /\ [](pc \in EnginePcs =>
             /\ good_proxies # <<>>
             /\ good_proxies[Len(good_proxies)] = proxy)
    /\ [][pc = "verify" /\ good_proxies' = good_proxies
          => /\ pc' = "switch_delay"
             /\ page' = page
             /\ num_requests = 0
             /\ UNCHANGED <<num_requests, page_next_up, cookies, res,
                            recordVars, refetches>>]_vars
    /\ [][pc = "switch_delay" => pc' = "pick"]_vars

\* the one proxy drawn so far answered with an IP that is not its own
C12_Witness ==
    /\ pc = "switch_delay"
    /\ message = "proxy not working"
    /\ Len(drawn) = 1
    /\ good_proxies = <<>>
    /\ bad_proxies = <<>>
    /\ num_requests = 0
    /\ page = START_PAGE

\* the pagination markers of the page are missing
NoMarkers(html) == ~(html.has_end /\ html.has_total)

\* C13 as claimed: a page without results table, and a page without
\* pagination markers, both end the whole run.
C13_AnomalyEndsRun ==
    [][/\ pc = "parse" /\ ~res.text.table => pc' = "done"
       /\ pc = "paginate" /\ NoMarkers(res.text) => pc' = "done"]_vars

\* C13 as amended: only missing pagination markers end the run: main breaks
\* and nothing more happens.  A page without results table makes the engine
\* return the cursor it holds, with nothing recorded, and main goes on to the
\* next proxy.
C13_AnomalyScope ==
    [][/\ pc = "parse" /\ ~res.text.table =>
             /\ pc' = "switch_delay"
             /\ message' = "no table"
             /\ page' = page_next_up
             /\ UNCHANGED <<page_next_up, recordVars>>
       /\ pc = "paginate" /\ NoMarkers(res.text) =>
             /\ pc' = "done"
             /\ message' = "more pages not determined"
             /\ page' = NoPage
       /\ pc = "done" => FALSE]_vars

\* page 2 came without results table while a proxy is left to retry it
C13_Witness ==
    /\ pc = "switch_delay"
    /\ message = "no table"
    /\ res.ok
    /\ ~res.text.table
    /\ page = START_PAGE + 1
    /\ proxies # <<>>

\* C14: every return of the engine to main that is not done hands over the
\* cursor the engine holds, unadvanced, with nothing recorded by that step:
\* no response to the fetch, a challenge without solution, a rejected
\* resubmission, no response to the re-fetch or a challenge on it, a missing
\* results table.  Each of these does return, and the next proxy that passes
\* verification starts on the cursor handed over.
C14_FailureKeepsCursor ==
    [][/\ pc \in EnginePcs /\ pc' = "switch_delay" =>
             /\ page' = page_next_up
             /\ UNCHANGED <<page_next_up, recordVars>>
       /\ (\/ pc \in {"fetch", "refetch"} /\ num_requests' # num_requests
                /\ ~res'.ok
           \/ pc = "fetch" /\ res'.ok /\ res'.text.marker \in MarkerTexts
                /\ res'.text.key_len < MIN_SITE_KEY_LEN
           \/ pc = "create_task" /\ pc' \notin {"poll_sleep", "crashed"}
           \/ pc = "post" /\ pc' # "refetch"
           \/ pc = "refetch" /\ res'.ok /\ res'.text.marker \in MarkerTexts
           \/ pc = "parse" /\ ~res.text.table)
          => pc' = "switch_delay" /\ page' = page_next_up
       /\ pc = "verify" /\ pc' = "fetch" =>
             page_next_up' = page /\ page' = page]_vars

\* the re-fetch of page 2 met another challenge
C14_Witness ==
    /\ pc = "switch_delay"
    /\ message = "another recaptcha"
    /\ refetches = 1
    /\ page = START_PAGE + 1
    /\ page_next_up = page

\* C15: every page index below the cursor, the engine's and main's, is the
\* index of a page whose records were merged into domains and written to the
\* results file; the step that advances the cursor leaves a page that is so
\* written and whose records are in both.
C15_WriteBeforeAdvance ==
    /\ [](/\ \A p \in START_PAGE..(page_next_up - 1) : p \in written_pages
          /\ \A p \in START_PAGE..(page - 1) : p \in written_pages)
    /\ [][page_next_up' > page_next_up =>
             /\ page_next_up \in written_pages
             /\ Extract(res.text.cells) \subseteq domains \cap Written
             /\ UNCHANGED recordVars]_vars

\* the cursor is at page 2, and the records of page 1 are in the file
C15_Witness ==
    /\ pc = "fetch"
    /\ page_next_up = START_PAGE + 1
    /\ written_pages = {START_PAGE}
    /\ Written = Records

\* the cursor: page_next_up while the engine runs, main's page between two
\* engine invocations
Cursor == IF pc \in EnginePcs THEN page_next_up ELSE page

\* C16: as long as the run has neither ended with done (main's page is then
\* None, no cursor) nor with an exception, every step leaves the cursor as it
\* is or adds one to it, the steps that hand it from main to the engine and
\* back included; main's page, until it is None, never goes down.
C16_CursorMonotone ==
    [][/\ pc' \notin {"done", "crashed"} => Cursor' \in {Cursor, Cursor + 1}
       /\ page' # NoPage => page' >= page
       /\ pc \in EnginePcs /\ pc' \in EnginePcs =>
             page_next_up' \in {page_next_up, page_next_up + 1}]_vars

\* the second proxy goes on at page 2, where the first one stopped
C16_Witness ==
    /\ pc = "fetch"
    /\ Len(drawn) = 2
    /\ page = START_PAGE + 1
    /\ page_next_up = START_PAGE + 1
    /\ num_requests = 0

\* C17: no two Fetcher objects refer to the same dict.  A jar changes only
\* by a _request call of the Fetcher it belongs to that came back with
\* status 200, and then it is the old jar with every cookie of the response
\* set to the response's value; a call that raised or came back with another
\* status changes no jar.
C17_JarOwnership ==
    /\ [](\A i, j \in DOMAIN fetchers :
             fetchers[i].cookies = fetchers[j].cookies => i = j)
    /\ [][\A d \in DOMAIN dicts :
             dicts'[d] # dicts[d] =>
                /\ request'.status = 200
                /\ request'.fetcher \in DOMAIN fetchers
                /\ fetchers[request'.fetcher].cookies = d
                /\ DOMAIN dicts'[d]
                     = DOMAIN dicts[d] \cup DOMAIN request'.cookies
                /\ \A n \in DOMAIN dicts'[d] :
                      dicts'[d][n] = IF n \in DOMAIN request'.cookies
                                     THEN request'.cookies[n]
                                     ELSE dicts[d][n]]_vars
    /\ [][request' # request /\ request'.status # 200 =>
             dicts' = dicts]_vars

\* two Fetchers of one proxy; the first holds s2_uGoo, the second was sent
\* it with status 429 and does not hold it
C17_Witness ==
    /\ Len(fetchers) = 2
    /\ fetchers[1].proxy = fetchers[2].proxy
    /\ "s2_uGoo" \in DOMAIN dicts[fetchers[1].cookies]
    /\ request.fetcher = 2
    /\ request.status = 429
    /\ "s2_uGoo" \in DOMAIN request.cookies
    /\ "s2_uGoo" \notin DOMAIN dicts[fetchers[2].cookies]

\* has_next_page answers False (counter at its end) or None (no counter)
NoMorePages(html) ==
    /\ ~has_next_page_raises(html)
    /\ has_next_page(html) \in {"False", "None"}

\* C18: the engine returning None ends main: from done nothing more happens,
\* no pick and no request, whatever proxies are left.  The run ends with done
\* exactly by the pagination step of a parsed page whose counter is at its
\* end or is missing.
C18_DoneStopsDriver ==
    /\ [](pc = "done" =>
             /\ page = NoPage
             /\ message \in {"all done", "more pages not determined"}
             /\ res.ok /\ NoMorePages(res.text)
             /\ page_next_up \in written_pages)
    /\ [][/\ pc = "done" => UNCHANGED vars
          /\ pc' = "done" => pc \in {"paginate", "done"}
          /\ pc = "paginate" /\ NoMorePages(res.text) => pc' = "done"]_vars

\* done with a proxy left in the list, never drawn
C18_Witness ==
    /\ pc = "done"
    /\ message = "all done"
    /\ proxies # <<>>
    /\ Len(drawn) = 1
    /\ num_requests > 0

\* a step that sends a request to the site through the proxy: the GET of
\* the loop, the POST of a solution, the GET after it
SiteRequest ==
    \/ pc = "fetch" /\ num_requests' = num_requests + 1
    \/ pc = "post"
    \/ pc = "refetch"

\* every return of proxy_is_working or of the engine that is not the end of
\* the run goes through time.sleep(3), and the draw of a proxy follows it
SwitchDelayTaken ==
    /\ pc \in EnginePcs \cup {"verify"}
       /\ pc' \notin EnginePcs \cup {"done", "crashed"} => pc' = "switch_delay"
    /\ pc' = "pick" => pc = "switch_delay"
    /\ pc = "switch_delay" => pc' = "pick"
    /\ pc' \in {"verify", "exhausted"} => pc = "pick"

\* C19 as claimed: no request goes to the site through a proxy while the
\* pause after a page that came back through it is due; work on a proxy is
\* always followed by the switch delay before the next draw.
C19_PauseAfterEveryFetch ==
    [][/\ SiteRequest => ~pause_due
       /\ SwitchDelayTaken]_vars

\* C19 as amended: the GET of the loop is never sent while a pause is due:
\* the page before it was parsed and written and time.sleep(5) was taken.
\* After a challenge page the POST of the solution and the second GET are
\* sent with the pause due.  Work on a proxy is always followed by the switch
\* delay before the next draw.
C19_PauseAfterParsedPage ==
    [][/\ pc = "fetch" /\ num_requests' = num_requests + 1 => ~pause_due
       /\ pc \in {"post", "refetch"} => pause_due
       /\ pc = "paginate" => pause_due /\ ~pause_due'
       /\ pause_due /\ ~pause_due' => pc \in {"paginate", "pick"}
       /\ SwitchDelayTaken]_vars

\* the second GET of page 2 is about to be sent; page 1 was followed by the
\* pause, the challenge page was not
C19_Witness ==
    /\ pc = "refetch"
    /\ pause_due
    /\ page_next_up = START_PAGE + 1
    /\ written_pages = {START_PAGE}
    /\ num_requests = 2

\* C20: one engine invocation sends at most MAX_REQUESTS_PER_IP GET requests
\* to the site, first fetches and re-fetches together.
C20_AtMostTwentyGets == num_requests <= MAX_REQUESTS_PER_IP

\* C21: every page index from the start cursor up to the cursor was parsed
\* and written, no index from the cursor on was, but for the page at the
\* cursor while its pagination is being decided and for the page on which the
\* run ended with done; and no page is written a second time.
C21_EachPageOnce ==
    /\ [](/\ \A p \in START_PAGE..(page_next_up - 1) : p \in written_pages
          /\ \A p \in written_pages :
                \/ p < page_next_up
                \/ p = page_next_up /\ pc \in {"paginate", "done"})
    /\ [][written_pages' # written_pages =>
             /\ page_next_up \notin written_pages
             /\ written_pages' = written_pages \cup {page_next_up}]_vars

\* C22: whatever the start cursor, main ends with "No more pages. Done."
\* only when the engine returned None: a page index returned by the engine
\* or by a failed verification is never taken for done.
C22_CursorNotTakenForDone == pc = "done" => page = NoPage

====
